---- MODULE Spec2Model ----
(***************************************************************************)
(* A model of stb_cli_bw_converter (src/main.cpp): the conversion          *)
(* orchestrator ImageConverter::ConvertImage, the fork-join grayscale      *)
(* engine BlackAndWhiteProcessor::ProcessImage with its worker threads,    *)
(* the extension resolution and encoder registry of SaveImage, and main(). *)
(*                                                                         *)
(* Vectors and strings are sequences; the code's 0-based index i is the    *)
(* sequence position i + 1 (operator At).  A string is a sequence of       *)
(* one-character strings.                                                  *)
(***************************************************************************)
EXTENDS Integers, Sequences, FiniteSets, TLC

VARIABLES
    pc,           \* position of ConvertImage: Idle, Decoding, ..., Done, Failed
    outputPath,   \* ImageConverter::outputPath
    imgData,      \* the decoder's native buffer (stbi_load's result)
    imgDataState, \* "null", "live" or "freed" (stbi_image_free)
    nativeFrees,  \* how many times stbi_image_free ran
    errors,       \* the messages of the exceptions thrown, in order
    saves,        \* the encoder Save invocations, in order
    files,        \* the files the encoders have written
    extension,    \* SaveImage's local: the resolved extension token
    exit,         \* main's outcome: running, exit0, exit1, killed
    stderr,       \* what main printed on standard error
    epc,          \* position of ProcessImage: idle, entry, launch, join, returned, crashed
    img,          \* the vector ProcessImage gets by reference (imageVector)
    width, height, channels,
    outputImage,  \* ProcessImage's local output vector
    nThreads, pixels, chunkSize,
    launchIdx,    \* the launch loop's i (line 207)
    joinIdx,      \* the join loop's position (line 213)
    threads,      \* threads[t]: the std::thread t and its processPixel frame
    hwConcurrency, \* what std::thread::hardware_concurrency() reports
    ub            \* the undefined behaviour executed so far, "none" if none

vars == << pc, outputPath, imgData, imgDataState, nativeFrees, errors, saves,
           files, extension, exit, stderr, epc, img, width, height, channels, outputImage,
           nThreads, pixels, chunkSize, launchIdx, joinIdx, threads,
           hwConcurrency, ub >>

orchVars == << pc, outputPath, imgData, imgDataState, nativeFrees, errors,
               saves, files, extension, exit, stderr >>

engineVars == << epc, img, width, height, channels, outputImage, nThreads,
                 pixels, chunkSize, launchIdx, joinIdx, threads,
                 hwConcurrency, ub >>

----------------------------------------------------------------------------
(* Bounds of the model. *)

MaxWidth == 3
MaxHeight == 2
MaxChannels == 3
MaxBytes == 6
MaxThreads == 3
MaxPathLen == 5

(* Width in bits of int and unsigned int in the model.  The build has 32;  *)
(* the arithmetic below is the build's with 32 replaced by IntBits, so     *)
(* that the whole representable range can be enumerated.                   *)
IntBits == 5

(* INT_MAX and UINT_MAX at that width. *)
IntMax == 2 ^ (IntBits - 1) - 1

UIntMax == 2 ^ IntBits - 1

(* The sample values buffers are drawn from: the two ends of the 8-bit     *)
(* range, whose means truncate ((0 + 255) / 2 = 127).                      *)
Samples == {0, 255}

(* The spec's worked examples: pixel (10,20,30) and the 2x1 RGB buffer.    *)
ExampleBuffers == { <<10, 20, 30>>, <<10, 20, 30, 40, 50, 60>> }

SeqsOfLen(S, n) == [1..n -> S]

Buffers(len) == SeqsOfLen(Samples, len) \cup {b \in ExampleBuffers : Len(b) = len}

(* The decoded contents of the input files the whole program is run on:    *)
(* uniform images, striped images and the worked examples.                 *)
FileBuffers(len) ==
    {[k \in 1..len |-> s] : s \in Samples}
      \cup {[k \in 1..len |-> IF k % 2 = 1 THEN 0 ELSE 255]}
      \cup {b \in ExampleBuffers : Len(b) = len}

----------------------------------------------------------------------------
(* Helpers for 0-based indexing. *)

At(s, i) == s[i + 1]

InRange(s, i) == 0 <= i /\ i < Len(s)

Zeros(n) == [k \in 1..n |-> 0]

----------------------------------------------------------------------------
(* BlackAndWhiteProcessor::ProcessImage: the arithmetic. *)

RECURSIVE SumChannels(_, _, _, _)
(* The inner loop of processPixel: img[i + j] + ... + img[i + c - 1]. *)
SumChannels(buf, i, j, c) ==
    IF j >= c THEN 0 ELSE At(buf, i + j) + SumChannels(buf, i, j + 1, c)

(* grayScale /= channels: integer division of a non-negative sum. *)
GrayScale(buf, i, c) == SumChannels(buf, i, 0, c) \div c

(* static_cast<unsigned char>(grayScale) *)
ToUChar(x) == x % 256

(* A conversion to an unsigned type two bits narrower than unsigned int. *)
AsUnsignedNarrow(x) == x % (2 ^ (IntBits - 2))

(* Conversion of an integer value to unsigned int: reduction modulo        *)
(* 2^IntBits (the usual arithmetic conversions of lines 205, 208, 209).    *)
AsUnsigned(x) == x % (2 ^ IntBits)

(* Conversion of an unsigned int value to int (the initialisations of      *)
(* chunkSize, start and end): two's complement.                            *)
AsInt(u) == IF u > IntMax THEN u - 2 ^ IntBits ELSE u

(* unsigned int * unsigned int *)
MulUnsigned(a, b) == AsUnsigned(a * b)

(* chunkSize rounded up instead of down: (pixels + nThreads - 1) / nThreads. *)
ChunkSizeRoundedUp(p, n) == (p + n - 1) \div n

(* int chunkSize = pixels / nThreads, for nThreads > 0. *)
ChunkSize(p, n) == AsInt(AsUnsigned(p) \div n)

(* ChunkStart with the channel factor forgotten: a pixel index used as a    *)
(* byte offset.                                                            *)
ChunkStartInPixels(i, cs, c) == i * cs

(* int start = i * chunkSize * channels *)
ChunkStart(i, cs, c) ==
    AsInt(MulUnsigned(MulUnsigned(i, AsUnsigned(cs)), AsUnsigned(c)))

(* ChunkEnd without the special case of the last thread: the remainder     *)
(* pixels of pixels / nThreads belong to no chunk.                         *)
ChunkEndNoRemainder(i, n, p, cs, c) == (i + 1) * cs * c

(* ChunkEnd with every chunk but the last running one pixel into the next. *)
ChunkEndOverlap(i, n, p, cs, c) ==
    IF i = n - 1 THEN p * c ELSE ((i + 1) * cs + 1) * c

(* ChunkEnd with the last chunk ending one pixel past the buffer. *)
ChunkEndOnePast(i, n, p, cs, c) ==
    IF i = n - 1 THEN (p + 1) * c ELSE (i + 1) * cs * c

(* int end = (i == nThreads - 1) ? pixels * channels : (i + 1) * chunkSize * channels *)
(* pixels * channels is an int product, converted to unsigned int by the   *)
(* conditional operator; it is at most the size of the decoded buffer.     *)
ChunkEnd(i, n, p, cs, c) ==
    AsInt(IF i = n - 1
            THEN AsUnsigned(p * c)
            ELSE MulUnsigned(MulUnsigned(AsUnsigned(i + 1), AsUnsigned(cs)),
                             AsUnsigned(c)))

(* A default-constructed std::thread: not joinable, no frame.  reads and   *)
(* writes are the locations (vector, 0-based index) the thread's           *)
(* processPixel has accessed so far.                                       *)
DefaultThread ==
    [st |-> "default", start |-> 0, i |-> 0, end |-> 0, reads |-> {}, writes |-> {}]

(* The locations one pass of processPixel's loop body reads (line 195) and *)
(* writes (line 198) for the pixel at byte offset i.                       *)
PixelReads(i, c) == {<< "img", i + j >> : j \in 0..(c - 1)}

PixelWrites(i, c) == {<< "outputImage", i \div c >>}

(* The body of processPixel's loop for one pixel: every index it touches. *)
PixelInBounds(t) ==
    /\ \A j \in 0..(channels - 1) : InRange(img, threads[t].i + j)
    /\ InRange(outputImage, threads[t].i \div channels)

----------------------------------------------------------------------------
(* BlackAndWhiteProcessor::ProcessImage: the steps. *)

(* Lines 189-205: allocate the output, ask the platform for its            *)
(* concurrency, size the thread vector and compute chunkSize.  With        *)
(* nThreads = 0 the division pixels / nThreads is undefined: the build     *)
(* either traps (the process is killed) or goes on with some quotient.     *)
ProcessImageBegin ==
    /\ epc = "entry"
    /\ outputImage' = Zeros(width * height)
    /\ nThreads' = hwConcurrency
    /\ threads' = [t \in 0..(hwConcurrency - 1) |-> DefaultThread]
    /\ pixels' = width * height
    /\ launchIdx' = 0
    /\ joinIdx' = 0
    /\ IF hwConcurrency = 0
         THEN /\ ub' = "div_by_zero_nThreads"
              /\ \/ epc' = "crashed" /\ chunkSize' = 0
                 \/ epc' = "join" /\ chunkSize' \in 0..(width * height)
         ELSE /\ ub' = ub
              /\ epc' = "launch"
              /\ chunkSize' = ChunkSize(width * height, hwConcurrency)
    /\ UNCHANGED << img, width, height, channels, hwConcurrency >>
    /\ UNCHANGED orchVars

(* Lines 207-211: one iteration of the launch loop starts thread i on its  *)
(* chunk [start, end).                                                     *)
LaunchThread ==
    /\ epc = "launch"
    /\ launchIdx < nThreads
    /\ threads' = [threads EXCEPT ![launchIdx] =
                     [st    |-> "running",
                      start |-> ChunkStart(launchIdx, chunkSize, channels),
                      i     |-> ChunkStart(launchIdx, chunkSize, channels),
                      end   |-> ChunkEnd(launchIdx, nThreads, pixels, chunkSize, channels),
                      reads |-> {},
                      writes |-> {}]]
    /\ launchIdx' = launchIdx + 1
    /\ epc' = IF launchIdx + 1 = nThreads THEN "join" ELSE "launch"
    /\ UNCHANGED << img, width, height, channels, outputImage, nThreads, pixels,
                    chunkSize, joinIdx, hwConcurrency, ub >>
    /\ UNCHANGED orchVars

(* WorkerStep with the loop increment left out: for (i = start; i < end; ) *)
WorkerStepNoAdvance(t) ==
    /\ epc \in {"launch", "join"}
    /\ t \in DOMAIN threads
    /\ threads[t].st = "running"
    /\ threads[t].i < threads[t].end
    /\ channels >= 1
    /\ PixelInBounds(t)
    /\ outputImage' = [outputImage EXCEPT ![(threads[t].i \div channels) + 1] =
                           ToUChar(GrayScale(img, threads[t].i, channels))]
    /\ threads' = [threads EXCEPT
                      ![t].reads = @ \cup PixelReads(threads[t].i, channels),
                      ![t].writes = @ \cup PixelWrites(threads[t].i, channels)]
    /\ UNCHANGED << epc, ub, img, width, height, channels, nThreads,
                    pixels, chunkSize, launchIdx, joinIdx, hwConcurrency >>
    /\ UNCHANGED orchVars

(* WorkerStep converting in place: the mean is stored into img, the vector *)
(* the workers read, instead of outputImage.                               *)
WorkerStepInPlace(t) ==
    /\ epc \in {"launch", "join"}
    /\ t \in DOMAIN threads
    /\ threads[t].st = "running"
    /\ threads[t].i < threads[t].end
    /\ channels >= 1
    /\ PixelInBounds(t)
    /\ img' = [img EXCEPT ![(threads[t].i \div channels) + 1] =
                   ToUChar(GrayScale(img, threads[t].i, channels))]
    /\ threads' = [threads EXCEPT
                      ![t].i = @ + channels,
                      ![t].reads = @ \cup PixelReads(threads[t].i, channels),
                      ![t].writes = @ \cup {<< "img", threads[t].i \div channels >>}]
    /\ UNCHANGED << epc, ub, outputImage, width, height, channels, nThreads,
                    pixels, chunkSize, launchIdx, joinIdx, hwConcurrency >>
    /\ UNCHANGED orchVars

(* Lines 192-199: thread t converts the pixel at byte offset i and         *)
(* advances i by channels.  A zero divisor or an index outside a vector is *)
(* undefined behaviour and ends the model's run as a crash.                *)
WorkerStep(t) ==
    /\ epc \in {"launch", "join"}
    /\ t \in DOMAIN threads
    /\ threads[t].st = "running"
    /\ threads[t].i < threads[t].end
    /\ IF channels = 0
         THEN /\ ub' = "div_by_zero_channels"
              /\ epc' = "crashed"
              /\ UNCHANGED << outputImage, threads >>
         ELSE IF ~PixelInBounds(t)
         THEN /\ ub' = "out_of_bounds"
              /\ epc' = "crashed"
              /\ UNCHANGED << outputImage, threads >>
         ELSE /\ outputImage' =
                    [outputImage EXCEPT ![(threads[t].i \div channels) + 1] =
                        ToUChar(GrayScale(img, threads[t].i, channels))]
              /\ threads' = [threads EXCEPT
                                ![t].i = @ + channels,
                                ![t].reads = @ \cup PixelReads(threads[t].i, channels),
                                ![t].writes = @ \cup PixelWrites(threads[t].i, channels)]
              /\ UNCHANGED << epc, ub >>
    /\ UNCHANGED << img, width, height, channels, nThreads, pixels, chunkSize,
                    launchIdx, joinIdx, hwConcurrency >>
    /\ UNCHANGED orchVars

(* Line 192, i >= end: processPixel returns and thread t's function ends.  *)
WorkerFinish(t) ==
    /\ epc \in {"launch", "join"}
    /\ t \in DOMAIN threads
    /\ threads[t].st = "running"
    /\ threads[t].i >= threads[t].end
    /\ threads' = [threads EXCEPT ![t].st = "finished"]
    /\ UNCHANGED << epc, img, width, height, channels, outputImage, nThreads,
                    pixels, chunkSize, launchIdx, joinIdx, hwConcurrency, ub >>
    /\ UNCHANGED orchVars

(* JoinThread that does not wait: a thread still running is passed over    *)
(* as if detached.                                                         *)
JoinThreadNoWait ==
    /\ epc = "join"
    /\ joinIdx < nThreads
    /\ threads' = [threads EXCEPT ![joinIdx].st =
                     IF @ = "finished" THEN "joined" ELSE @]
    /\ joinIdx' = joinIdx + 1
    /\ UNCHANGED << epc, img, width, height, channels, outputImage, nThreads,
                    pixels, chunkSize, launchIdx, hwConcurrency, ub >>
    /\ UNCHANGED orchVars

(* Lines 213-217: join the next thread; join() blocks until it finished.   *)
(* A thread that is not joinable is passed over.                           *)
JoinThread ==
    /\ epc = "join"
    /\ joinIdx < nThreads
    /\ threads[joinIdx].st \in {"default", "finished"}
    /\ threads' = [threads EXCEPT ![joinIdx].st =
                     IF @ = "finished" THEN "joined" ELSE @]
    /\ joinIdx' = joinIdx + 1
    /\ UNCHANGED << epc, img, width, height, channels, outputImage, nThreads,
                    pixels, chunkSize, launchIdx, hwConcurrency, ub >>
    /\ UNCHANGED orchVars

(* Line 219: img = std::move(outputImage), then ProcessImage returns.      *)
ProcessImageReturn ==
    /\ epc = "join"
    /\ joinIdx = nThreads
    /\ img' = outputImage
    /\ outputImage' = << >>
    /\ epc' = "returned"
    /\ UNCHANGED << width, height, channels, nThreads, pixels, chunkSize,
                    launchIdx, joinIdx, threads, hwConcurrency, ub >>
    /\ UNCHANGED orchVars

NextEngine ==
    \/ ProcessImageBegin
    \/ LaunchThread
    \/ \E t \in 0..(MaxThreads - 1) : WorkerStep(t)
    \/ \E t \in 0..(MaxThreads - 1) : WorkerFinish(t)
    \/ JoinThread
    \/ ProcessImageReturn

(* ProcessImage called on its own: any width, height and channel count     *)
(* (zero included), any buffer of width * height * channels samples, any   *)
(* reported concurrency.                                                   *)
InitEngine ==
    /\ pc = "Transforming"
    /\ outputPath = << >>
    /\ width \in 0..MaxWidth
    /\ height \in 0..MaxHeight
    /\ channels \in 0..MaxChannels
    /\ width * height * channels <= MaxBytes
    /\ img \in Buffers(width * height * channels)
    /\ imgData = img
    /\ imgDataState = "live"
    /\ nativeFrees = 0
    /\ errors = << >>
    /\ saves = << >>
    /\ files = {}
    /\ extension = << >>
    /\ exit = "running"
    /\ stderr = << >>
    /\ epc = "entry"
    /\ outputImage = << >>
    /\ hwConcurrency \in 0..MaxThreads
    /\ nThreads = 0
    /\ pixels = 0
    /\ chunkSize = 0
    /\ launchIdx = 0
    /\ joinIdx = 0
    /\ threads = << >>
    /\ ub = "none"

SpecEngine == InitEngine /\ [][NextEngine]_vars

(* The calling thread: lines 202-219 run to completion once started. *)
MainThread ==
    ProcessImageBegin \/ LaunchThread \/ JoinThread \/ ProcessImageReturn

(* One std::thread running processPixel (lines 191-200). *)
Worker(t) == WorkerStep(t) \/ WorkerFinish(t)

(* The values hardware_concurrency() is drawn from for the offset          *)
(* arithmetic: the small counts and the two ends of the unsigned range.    *)
WrapConcurrency == (0..MaxThreads) \cup {IntMax, UIntMax}

(* ProcessImage called with any dimensions whose buffer size               *)
(* width * height * channels fits an int, on a buffer of zeros.            *)
InitWrap ==
    /\ pc = "Transforming"
    /\ outputPath = << >>
    /\ width \in 0..IntMax
    /\ height \in 0..IntMax
    /\ channels \in 0..MaxChannels
    /\ width * height <= IntMax
    /\ width * height * channels <= IntMax
    /\ img = Zeros(width * height * channels)
    /\ imgData = img
    /\ imgDataState = "live"
    /\ nativeFrees = 0
    /\ errors = << >>
    /\ saves = << >>
    /\ files = {}
    /\ extension = << >>
    /\ exit = "running"
    /\ stderr = << >>
    /\ epc = "entry"
    /\ outputImage = << >>
    /\ nThreads = 0
    /\ pixels = 0
    /\ chunkSize = 0
    /\ launchIdx = 0
    /\ joinIdx = 0
    /\ threads = << >>
    /\ hwConcurrency \in WrapConcurrency
    /\ ub = "none"

(* Lines 202-211 alone: the offsets handed to the threads. *)
NextWrap == ProcessImageBegin \/ LaunchThread

SpecWrap == InitWrap /\ [][NextWrap]_vars

(* ProcessImage under a fair scheduler: the calling thread and every       *)
(* launched std::thread keep being scheduled while they can take a step.   *)
SpecEngineFair ==
    /\ InitEngine
    /\ [][NextEngine]_vars
    /\ WF_vars(MainThread)
    /\ \A t \in 0..(MaxThreads - 1) : WF_vars(Worker(t))

----------------------------------------------------------------------------
(* ImageConverter::GetFileExtension and the encoder registry. *)

(* std::string::npos *)
Npos == -1

UpperCase == << "A", "B", "C", "D", "E", "F", "G", "H", "I", "J", "K", "L", "M",
                "N", "O", "P", "Q", "R", "S", "T", "U", "V", "W", "X", "Y", "Z" >>

LowerCase == << "a", "b", "c", "d", "e", "f", "g", "h", "i", "j", "k", "l", "m",
                "n", "o", "p", "q", "r", "s", "t", "u", "v", "w", "x", "y", "z" >>

(* ::tolower in the "C" locale: an upper-case letter becomes its           *)
(* lower-case letter, every other character is returned unchanged.         *)
ToLowerChar(ch) ==
    IF \E k \in 1..Len(UpperCase) : UpperCase[k] = ch
      THEN LowerCase[CHOOSE k \in 1..Len(UpperCase) : UpperCase[k] = ch]
      ELSE ch

(* std::transform(ext.begin(), ext.end(), ext.begin(), ::tolower) *)
ToLower(str) == [k \in 1..Len(str) |-> ToLowerChar(str[k])]

(* find_first_of in place of find_last_of: the first ch, not the last. *)
FindFirstOf(str, ch) ==
    IF \E k \in 1..Len(str) : str[k] = ch
      THEN (CHOOSE k \in 1..Len(str) :
                str[k] = ch /\ \A m \in 1..(k - 1) : str[m] # ch) - 1
      ELSE Npos

(* fileName.find_last_of(ch): the 0-based position of the last ch, or npos. *)
FindLastOf(str, ch) ==
    IF \E k \in 1..Len(str) : str[k] = ch
      THEN (CHOOSE k \in 1..Len(str) :
                str[k] = ch /\ \A m \in (k + 1)..Len(str) : str[m] # ch) - 1
      ELSE Npos

(* fileName.substr(pos): the characters from 0-based position pos on. *)
Substr(str, pos) == SubSeq(str, pos + 1, Len(str))

ExtensionErrorMessage == "An error was encountered while finding the file extension."

UnsupportedFormatMessage == "Unsupported image format"

DecodeErrorMessage == "Error loading image"

(* GetFileExtension: [thrown |-> TRUE] stands for the runtime_error of     *)
(* line 316, otherwise ext is the returned token.                          *)
GetFileExtension(fileName) ==
    LET dotPos == FindLastOf(fileName, ".") IN
    IF dotPos = Npos
      THEN [thrown |-> TRUE, ext |-> << >>]
      ELSE [thrown |-> FALSE, ext |-> ToLower(Substr(fileName, dotPos + 1))]

(* The strategies map the constructor fills: token -> encoder variant.     *)
Strategies ==
    (<< "p", "n", "g" >> :> "PNG") @@
    (<< "j", "p", "g" >> :> "JPEG") @@
    (<< "j", "p", "e", "g" >> :> "JPEG") @@
    (<< "b", "m", "p" >> :> "BMP") @@
    (<< "t", "g", "a" >> :> "TGA")

(* The component count every stbi_write_* call is given. *)
SaveChannels == 1

(* The quality stbi_write_jpg is given. *)
JpegQuality == 100

(* SaveCall with the source's channel count passed on as the component     *)
(* count instead of the fixed 1.                                           *)
SaveCallSourceChannels(variant, path, buf, w, h) ==
    [variant |-> variant, path |-> path, img |-> buf, width |-> w, height |-> h,
     channels |-> channels,
     quality |-> IF variant = "JPEG" THEN JpegQuality ELSE 0,
     stride |-> IF variant = "PNG" THEN w ELSE 0]

(* What a variant's Save hands to its stbi_write_* function.               *)
SaveCall(variant, path, buf, w, h) ==
    [variant |-> variant, path |-> path, img |-> buf, width |-> w, height |-> h,
     channels |-> SaveChannels,
     quality |-> IF variant = "JPEG" THEN JpegQuality ELSE 0,
     stride |-> IF variant = "PNG" THEN w ELSE 0]

----------------------------------------------------------------------------
(* ImageConverter::ConvertImage, SaveImage and main: the steps. *)

(* ReleaseNative with a second stbi_image_free next to the unique_ptr's    *)
(* deleter.                                                                *)
ReleaseNativeTwice ==
    /\ imgDataState' = "freed"
    /\ nativeFrees' = nativeFrees + 2

(* Leaving ConvertImage after the decode: the unique_ptr's deleter         *)
(* stbi_image_free runs (normal return and stack unwinding alike).         *)
ReleaseNative ==
    /\ imgDataState' = "freed"
    /\ nativeFrees' = nativeFrees + 1

(* throw std::runtime_error(msg) out of ConvertImage. *)
Throw(msg) ==
    /\ errors' = Append(errors, msg)
    /\ pc' = "Failed"

(* Line 338 -> 264: main calls ConvertImage, which calls stbi_load. *)
ConvertImageStart ==
    /\ pc = "Idle"
    /\ pc' = "Decoding"
    /\ UNCHANGED << outputPath, imgData, imgDataState, nativeFrees, errors,
                    saves, files, extension, exit, stderr >>
    /\ UNCHANGED engineVars

(* DecodeOk with the call of ProcessImage left out: the decoded buffer     *)
(* goes straight to SaveImage.                                             *)
DecodeOkSkipTransform ==
    /\ pc = "Decoding"
    /\ \E w \in 1..MaxWidth, h \in 1..MaxHeight, c \in 1..MaxChannels :
         /\ w * h * c <= MaxBytes
         /\ \E data \in FileBuffers(w * h * c) :
              /\ imgData' = data
              /\ img' = data
              /\ width' = w
              /\ height' = h
              /\ channels' = c
    /\ imgDataState' = "live"
    /\ pc' = "Resolving"
    /\ UNCHANGED << outputPath, nativeFrees, errors, saves, files, extension,
                    exit, stderr >>
    /\ UNCHANGED << epc, outputImage, nThreads, pixels, chunkSize, launchIdx,
                    joinIdx, threads, hwConcurrency, ub >>

(* Lines 264-273: stbi_load succeeds with some image; the native buffer is *)
(* owned by the unique_ptr, copied into imageVector, and ProcessImage is   *)
(* called on the copy.                                                     *)
DecodeOk ==
    /\ pc = "Decoding"
    /\ \E w \in 1..MaxWidth, h \in 1..MaxHeight, c \in 1..MaxChannels :
         /\ w * h * c <= MaxBytes
         /\ \E data \in FileBuffers(w * h * c) :
              /\ imgData' = data
              /\ img' = data
              /\ width' = w
              /\ height' = h
              /\ channels' = c
    /\ imgDataState' = "live"
    /\ pc' = "Transforming"
    /\ epc' = "entry"
    /\ UNCHANGED << outputPath, nativeFrees, errors, saves, files, extension,
                    exit, stderr >>
    /\ UNCHANGED << outputImage, nThreads, pixels, chunkSize, launchIdx, joinIdx,
                    threads, hwConcurrency, ub >>

(* DecodeFail with the error noted but not thrown: ConvertImage goes on to *)
(* ProcessImage with the dimensions it has.                                *)
DecodeFailContinue ==
    /\ pc = "Decoding"
    /\ errors' = Append(errors, DecodeErrorMessage)
    /\ pc' = "Transforming"
    /\ epc' = "entry"
    /\ UNCHANGED << outputPath, imgData, imgDataState, nativeFrees, saves,
                    files, extension, exit, stderr >>
    /\ UNCHANGED << img, width, height, channels, outputImage, nThreads, pixels,
                    chunkSize, launchIdx, joinIdx, threads, hwConcurrency, ub >>

(* Lines 264-267: stbi_load returns nullptr. *)
DecodeFail ==
    /\ pc = "Decoding"
    /\ Throw(DecodeErrorMessage)
    /\ UNCHANGED << outputPath, imgData, imgDataState, nativeFrees, saves,
                    files, extension, exit, stderr >>
    /\ UNCHANGED engineVars

(* Line 273 -> 275: ProcessImage has returned; SaveImage is called. *)
TransformReturn ==
    /\ pc = "Transforming"
    /\ epc = "returned"
    /\ pc' = "Resolving"
    /\ UNCHANGED << outputPath, imgData, imgDataState, nativeFrees, errors,
                    saves, files, extension, exit, stderr >>
    /\ UNCHANGED engineVars

(* The trap of line 205 kills the process: nothing unwinds, main's catch   *)
(* does not run.                                                           *)
ProcessKilled ==
    /\ pc = "Transforming"
    /\ epc = "crashed"
    /\ pc' = "Failed"
    /\ exit' = "killed"
    /\ UNCHANGED << outputPath, imgData, imgDataState, nativeFrees, errors,
                    saves, files, extension, stderr >>
    /\ UNCHANGED engineVars

(* ResolveEncoder with a default in place of line 302's throw: an unknown  *)
(* token is encoded as PNG.                                                *)
ResolveEncoderDefaultPng ==
    /\ pc = "Resolving"
    /\ LET r == GetFileExtension(outputPath) IN
         IF r.thrown
           THEN /\ Throw(ExtensionErrorMessage)
                /\ ReleaseNative
                /\ UNCHANGED extension
           ELSE /\ pc' = "Encoding"
                /\ extension' = IF r.ext \in DOMAIN Strategies
                                  THEN r.ext ELSE << "p", "n", "g" >>
                /\ UNCHANGED << errors, imgDataState, nativeFrees >>
    /\ UNCHANGED << outputPath, imgData, saves, files, exit, stderr >>
    /\ UNCHANGED engineVars

(* Lines 297-303 up to the call of Save: resolve the extension token and   *)
(* look the encoder up; either may throw.                                  *)
ResolveEncoder ==
    /\ pc = "Resolving"
    /\ LET r == GetFileExtension(outputPath) IN
         IF r.thrown
           THEN /\ Throw(ExtensionErrorMessage)
                /\ ReleaseNative
                /\ UNCHANGED extension
           ELSE IF r.ext \in DOMAIN Strategies
           THEN /\ pc' = "Encoding"
                /\ extension' = r.ext
                /\ UNCHANGED << errors, imgDataState, nativeFrees >>
           ELSE /\ Throw(UnsupportedFormatMessage)
                /\ ReleaseNative
                /\ extension' = r.ext
    /\ UNCHANGED << outputPath, imgData, saves, files, exit, stderr >>
    /\ UNCHANGED engineVars

(* Line 300 and the variant's Save (lines 71-131): the stbi_write_* call   *)
(* succeeds or fails; its result is discarded and Save returns void, so    *)
(* SaveImage and ConvertImage return normally either way.                  *)
Save ==
    /\ pc = "Encoding"
    /\ \E written \in BOOLEAN :
         LET call == SaveCall(Strategies[extension], outputPath, img, width, height) IN
         /\ saves' = Append(saves, [call |-> call, written |-> written])
         /\ files' = IF written THEN files \cup {call} ELSE files
    /\ pc' = "Done"
    /\ ReleaseNative
    /\ UNCHANGED << outputPath, imgData, errors, extension, exit, stderr >>
    /\ UNCHANGED engineVars

(* Lines 339-341: main catches the exception, prints it and returns 1. *)
MainCatch ==
    /\ pc = "Failed"
    /\ exit = "running"
    /\ stderr' = Append(stderr, << "Error: ", errors[Len(errors)] >>)
    /\ exit' = "exit1"
    /\ UNCHANGED << pc, outputPath, imgData, imgDataState, nativeFrees, errors,
                    saves, files, extension >>
    /\ UNCHANGED engineVars

(* Line 344: ConvertImage returned normally; main returns 0. *)
MainReturn ==
    /\ pc = "Done"
    /\ exit = "running"
    /\ exit' = "exit0"
    /\ UNCHANGED << pc, outputPath, imgData, imgDataState, nativeFrees, errors,
                    saves, files, extension, stderr >>
    /\ UNCHANGED engineVars

NextOrchestrator ==
    \/ ConvertImageStart
    \/ DecodeOk
    \/ DecodeFail
    \/ TransformReturn
    \/ ProcessKilled
    \/ ResolveEncoder
    \/ Save
    \/ MainCatch
    \/ MainReturn

Next == NextOrchestrator \/ NextEngine

(* The output paths the whole program is run with. *)
Paths ==
    { << "p", "h", "o", "t", "o", ".", "P", "N", "G" >>,
      << "a", "r", "c", "h", "i", "v", "e", ".", "t", "a", "r", ".", "g", "z" >>,
      << "n", "o", "e", "x", "t" >>,
      << "o", "u", "t", ".", "g", "i", "f" >>,
      << "x", ".", "b", "m", "p" >>,
      << "a", ".", "j", "p", "g" >>,
      << "a", ".", "j", "p", "e", "g" >>,
      << "a", ".", "T", "G", "A" >>,
      << "a", "." >>,
      << >> }

(* The state after main has constructed the converter (line 337). *)
Init ==
    /\ pc = "Idle"
    /\ outputPath \in Paths
    /\ hwConcurrency \in 0..MaxThreads
    /\ imgData = << >>
    /\ imgDataState = "null"
    /\ nativeFrees = 0
    /\ errors = << >>
    /\ saves = << >>
    /\ files = {}
    /\ extension = << >>
    /\ exit = "running"
    /\ stderr = << >>
    /\ epc = "idle"
    /\ img = << >>
    /\ width = 0
    /\ height = 0
    /\ channels = 0
    /\ outputImage = << >>
    /\ nThreads = 0
    /\ pixels = 0
    /\ chunkSize = 0
    /\ launchIdx = 0
    /\ joinIdx = 0
    /\ threads = << >>
    /\ ub = "none"

Spec == Init /\ [][Next]_vars

----------------------------------------------------------------------------
(* SaveImage run on every short output path over a small alphabet, from    *)
(* the state ConvertImage is in once ProcessImage has returned for the     *)
(* 2x1 RGB example on a single-threaded platform.                          *)

PathAlphabet == {".", "b", "m", "p", "B"}

BoundedPaths == UNION {SeqsOfLen(PathAlphabet, n) : n \in 0..MaxPathLen}

InitExt ==
    /\ pc = "Resolving"
    /\ outputPath \in BoundedPaths \cup Paths
    /\ hwConcurrency = 1
    /\ imgData = << 10, 20, 30, 40, 50, 60 >>
    /\ imgDataState = "live"
    /\ nativeFrees = 0
    /\ errors = << >>
    /\ saves = << >>
    /\ files = {}
    /\ extension = << >>
    /\ exit = "running"
    /\ stderr = << >>
    /\ epc = "returned"
    /\ img = << 20, 50 >>
    /\ width = 2
    /\ height = 1
    /\ channels = 3
    /\ outputImage = << >>
    /\ nThreads = 1
    /\ pixels = 2
    /\ chunkSize = 2
    /\ launchIdx = 1
    /\ joinIdx = 1
    /\ threads = [t \in {0} |->
                     [st |-> "joined", start |-> 0, i |-> 6, end |-> 6,
                      reads |-> {<< "img", k >> : k \in 0..5},
                      writes |-> {<< "outputImage", k >> : k \in 0..1}]]
    /\ ub = "none"

NextExt == ResolveEncoder \/ Save \/ MainCatch \/ MainReturn

SpecExt == InitExt /\ [][NextExt]_vars

----------------------------------------------------------------------------
(* What the claims speak of, defined apart from the model of the code. *)

RECURSIVE SeqSum(_)
SeqSum(seq) == IF seq = << >> THEN 0 ELSE Head(seq) + SeqSum(Tail(seq))

(* floor((buf[p*c] + ... + buf[p*c + c - 1]) / c) for pixel p *)
TruncatedMean(buf, p, c) == SeqSum(SubSeq(buf, p * c + 1, p * c + c)) \div c

(* The grayscale image of a decoded buffer: one truncated mean per pixel. *)
GrayscaleOf(buf, k, c) == [q \in 1..k |-> TruncatedMean(buf, q - 1, c)]

RECURSIVE ProcessPixelRun(_, _, _, _, _)
(* processPixel(i, end) run to completion by one thread on its own. *)
ProcessPixelRun(buf, out, i, end, c) ==
    IF i >= end
      THEN out
      ELSE ProcessPixelRun(buf,
                           [out EXCEPT ![(i \div c) + 1] = ToUChar(GrayScale(buf, i, c))],
                           i + c, end, c)

(* What ProcessImage leaves in img when it runs with one worker (N = 1):   *)
(* the single chunk [start_0, end_0) processed sequentially.               *)
SingleWorkerOutput(buf, w, h, c) ==
    ProcessPixelRun(buf, Zeros(w * h),
                    ChunkStart(0, ChunkSize(w * h, 1), c),
                    ChunkEnd(0, 1, w * h, ChunkSize(w * h, 1), c), c)

(* ProcessImage has computed its chunks and launched every worker. *)
AllLaunched == epc \in {"join", "returned"} /\ launchIdx = nThreads

(* The chunks of the launched workers that hold byte offset b. *)
OwnersOf(b) == {t \in DOMAIN threads : threads[t].start <= b /\ b < threads[t].end}

----------------------------------------------------------------------------
(* Claims about ProcessImage, checked under SpecEngine. *)

(* C1: for every channel count c >= 1, pixel count k >= 0 and buffer of    *)
(* k*c samples, after ProcessImage returns the buffer has length k and     *)
(* output[p] is the truncated mean of pixel p's c samples.  Stated as the  *)
(* claim states it, for every platform concurrency.                        *)
C1_OutputIsTruncatedMean ==
    (epc = "returned" /\ channels >= 1) =>
        /\ Len(img) = width * height
        /\ \A p \in 0..(width * height - 1) :
              At(img, p) = TruncatedMean(imgData, p, channels)

(* C2: for width, height, channels >= 1 and N >= 1 the N chunk ranges      *)
(* [start_i, end_i) partition [0, width*height*channels): every byte       *)
(* offset lies in exactly one chunk, no chunk reaches outside, every       *)
(* boundary is a multiple of channels, every chunk but the last holds      *)
(* chunkSize = pixels / N pixels and the last holds the remainder too.     *)
C2_ChunksPartitionBuffer ==
    (AllLaunched /\ nThreads >= 1 /\ width >= 1 /\ height >= 1 /\ channels >= 1) =>
        LET total == width * height * channels
            cs    == (width * height) \div nThreads
        IN  /\ \A b \in 0..(total - 1) : Cardinality(OwnersOf(b)) = 1
            /\ \A t \in DOMAIN threads :
                  /\ 0 <= threads[t].start
                  /\ threads[t].start <= threads[t].end
                  /\ threads[t].end <= total
                  /\ threads[t].start % channels = 0
                  /\ threads[t].end % channels = 0
                  /\ t < nThreads - 1 =>
                        threads[t].end - threads[t].start = cs * channels
                  /\ t = nThreads - 1 =>
                        threads[t].end - threads[t].start =
                            (cs + ((width * height) % nThreads)) * channels

(* C2 witness: three workers launched on four 1-channel pixels, so the     *)
(* last chunk takes the remainder pixel.                                   *)
C2_Witness ==
    /\ AllLaunched
    /\ nThreads = 3
    /\ width * height = 4
    /\ channels = 1
    /\ threads[2].start = 2
    /\ threads[2].end = 4

(* C3: for identical input the buffer ProcessImage returns is the same for *)
(* every worker count N >= 1 and every interleaving of the workers: it is  *)
(* always the buffer the single-worker run produces.                       *)
C3_OutputIndependentOfWorkers ==
    (epc = "returned" /\ nThreads >= 1) =>
        img = SingleWorkerOutput(imgData, width, height, channels)

(* C3 witness: a run with three workers on three mixed pixels returned. *)
C3_Witness ==
    /\ epc = "returned"
    /\ nThreads = 3
    /\ channels = 2
    /\ imgData = << 0, 255, 255, 255, 0, 0 >>
    /\ img = << 127, 255, 0 >>

(* C7: the worker count equals the detected hardware concurrency, and is 1 *)
(* when the platform reports 0; the transform then still processes every   *)
(* pixel and never divides by zero computing chunkSize.                    *)
C7_FallbackToOneWorker ==
    /\ ub # "div_by_zero_nThreads"
    /\ epc \in {"launch", "join", "returned"} =>
          nThreads = IF hwConcurrency = 0 THEN 1 ELSE hwConcurrency
    /\ (epc = "returned" /\ channels >= 1) =>
          img = GrayscaleOf(imgData, width * height, channels)

(* C8: the transform called with channels = 0 fails fast: it never divides *)
(* by the channel count and never returns a buffer as if the conversion    *)
(* had succeeded.  Stated for a non-empty image on a platform that reports *)
(* a concurrency of at least 1, where the division of line 205 is defined, *)
(* so that a violation is the missing check of channels and nothing else.  *)
C8_ZeroChannelsFailFast ==
    (channels = 0 /\ width >= 1 /\ height >= 1 /\ hwConcurrency >= 1) =>
        (epc # "returned" /\ ub # "div_by_zero_channels")

----------------------------------------------------------------------------
(* Claims about ConvertImage and main, checked under Spec. *)

NonTerminal == {"Idle", "Decoding", "Transforming", "Resolving", "Encoding"}

(* The moves the orchestrator's state machine allows. *)
AllowedTransitions ==
    { << "Idle", "Decoding" >>, << "Decoding", "Transforming" >>,
      << "Transforming", "Resolving" >>, << "Resolving", "Encoding" >>,
      << "Encoding", "Done" >> }
      \cup {<< st, "Failed" >> : st \in NonTerminal}

(* The fixed token set of the spec. *)
RegisteredTokens ==
    { << "p", "n", "g" >>, << "j", "p", "g" >>, << "j", "p", "e", "g" >>, << "b", "m", "p" >>, << "t", "g", "a" >> }

(* What has been done by the time pc holds each state: each step belongs   *)
(* to its stage, and Done comes after every stage finished without error.  *)
StageFacts ==
    /\ pc \in {"Idle", "Decoding"} =>
          /\ imgDataState = "null"
          /\ epc = "idle"
          /\ extension = << >>
          /\ saves = << >>
    /\ pc = "Transforming" =>
          /\ imgDataState = "live"
          /\ epc # "idle"
          /\ extension = << >>
          /\ saves = << >>
    /\ pc = "Resolving" =>
          /\ imgDataState = "live"
          /\ epc = "returned"
          /\ extension = << >>
          /\ saves = << >>
    /\ pc = "Encoding" =>
          /\ imgDataState = "live"
          /\ epc = "returned"
          /\ extension \in RegisteredTokens
          /\ saves = << >>
    /\ pc = "Done" =>
          /\ imgDataState # "null"
          /\ epc = "returned"
          /\ extension \in RegisteredTokens
          /\ Len(saves) = 1
          /\ errors = << >>

C6_FailedWriteFailsJob ==
    (ub = "none" /\ \E k \in DOMAIN saves : ~saves[k].written) =>
        (pc # "Done" /\ exit # "exit0" /\ errors # << >>)

----------------------------------------------------------------------------
(* Claims about the extension token and the encoder lookup, checked under  *)
(* SpecExt.                                                                *)

HasDot(path) == \E k \in 1..Len(path) : path[k] = "."

(* a is the lower-case form of the character b *)
IsLowerOf(a, b) ==
    IF \E k \in 1..Len(UpperCase) : UpperCase[k] = b
      THEN \E k \in 1..Len(UpperCase) : UpperCase[k] = b /\ LowerCase[k] = a
      ELSE a = b

(* token is the lower-case form of what follows the last "." of path *)
IsLowerCaseOfLastSegment(token, path) ==
    LET n    == Len(token)
        from == Len(path) - n
    IN  /\ from >= 1
        /\ path[from] = "."
        /\ \A k \in 1..n : path[from + k] # "." /\ IsLowerOf(token[k], path[from + k])

(* C9: the resolved token is the lower-case form of the substring after    *)
(* the last "." of the output path; a path with no "." gets the extension  *)
(* error and no token, not an empty token.                                 *)
C9_ExtensionIsLowercaseLastSegment ==
    pc # "Resolving" =>
        IF HasDot(outputPath)
          THEN /\ IsLowerCaseOfLastSegment(extension, outputPath)
               /\ errors # << ExtensionErrorMessage >>
          ELSE /\ pc = "Failed"
               /\ errors = << ExtensionErrorMessage >>
               /\ extension = << >>
               /\ saves = << >>

(* C9 witness: "archive.tar.gz" has been resolved to "gz". *)
C9_Witness ==
    /\ outputPath = << "a", "r", "c", "h", "i", "v", "e", ".", "t", "a", "r", ".", "g", "z" >>
    /\ extension = << "g", "z" >>
    /\ pc = "Failed"

(* The path's token (the lower-case form of what follows its last ".") is  *)
(* one of the registered tokens.                                           *)
PathTokenRegistered(path) ==
    \E tok \in RegisteredTokens : IsLowerCaseOfLastSegment(tok, path)

(* C10: the lookup is an exact match of the token against {png, jpg, jpeg, *)
(* bmp, tga}: a path whose token is in the set gets that token's encoder,  *)
(* every other token (the empty one included) ends the job with the        *)
(* unsupported-format error, no encoder invoked and no file written.       *)
C10_UnknownTokenIsUnsupported ==
    (pc # "Resolving" /\ HasDot(outputPath)) =>
        IF PathTokenRegistered(outputPath)
          THEN /\ pc \in {"Encoding", "Done"}
               /\ errors = << >>
               /\ extension \in RegisteredTokens
               /\ IsLowerCaseOfLastSegment(extension, outputPath)
          ELSE /\ pc = "Failed"
               /\ errors = << UnsupportedFormatMessage >>
               /\ saves = << >>
               /\ files = {}

(* C10 witness: "out.gif" was refused and main exited with 1. *)
C10_Witness ==
    /\ outputPath = << "o", "u", "t", ".", "g", "i", "f" >>
    /\ extension = << "g", "i", "f" >>
    /\ pc = "Failed"
    /\ errors = << UnsupportedFormatMessage >>
    /\ saves = << >>
    /\ exit = "exit1"

----------------------------------------------------------------------------
(* Claims about the encoder invocation and the exit code, checked under    *)
(* Spec.                                                                   *)

(* The variant the spec registers for each token. *)
VariantOfToken ==
    (<< "p", "n", "g" >> :> "PNG") @@ (<< "j", "p", "g" >> :> "JPEG") @@
    (<< "j", "p", "e", "g" >> :> "JPEG") @@ (<< "b", "m", "p" >> :> "BMP") @@
    (<< "t", "g", "a" >> :> "TGA")

(* C11: an encoder variant that is invoked is the one registered for the   *)
(* output path's token, is invoked once per ConvertImage and only after    *)
(* the transform has returned, with the output path, the decoded width and *)
(* height, a component count of 1 and the transform's output, a buffer of  *)
(* width*height samples whatever the source's channel count (on a platform *)
(* with at least one worker, the truncated means of the decoded pixels).   *)
C11_EncoderInvocation ==
    /\ Len(saves) <= 1
    /\ pc = "Done" => Len(saves) = 1
    /\ \A k \in DOMAIN saves :
          LET call == saves[k].call IN
          /\ epc = "returned"
          /\ \E tok \in RegisteredTokens :
                /\ IsLowerCaseOfLastSegment(tok, outputPath)
                /\ call.variant = VariantOfToken[tok]
          /\ call.path = outputPath
          /\ call.width = width
          /\ call.height = height
          /\ call.channels = 1
          /\ Len(call.img) = width * height
          /\ call.img = img
          /\ nThreads >= 1 =>
                call.img = GrayscaleOf(imgData, width * height, channels)

(* C11 witness: the 2x1 RGB example saved to "x.bmp" reached the BMP       *)
(* variant as [20, 50], 2 x 1, one component.                              *)
C11_Witness ==
    /\ imgData = << 10, 20, 30, 40, 50, 60 >>
    /\ outputPath = << "x", ".", "b", "m", "p" >>
    /\ Len(saves) = 1
    /\ saves[1].call.variant = "BMP"
    /\ saves[1].call.img = << 20, 50 >>
    /\ saves[1].call.width = 2
    /\ saves[1].call.height = 1
    /\ saves[1].call.channels = 1

(* The conversion succeeded: it ended Done with its one file written. *)
ConversionSucceeded ==
    /\ pc = "Done"
    /\ errors = << >>
    /\ Len(saves) = 1
    /\ saves[1].written

(* A core error occurred: a thrown decode, extension or unsupported-format *)
(* error, or an encode call that failed.                                   *)
CoreErrorOccurred ==
    \/ errors # << >>
    \/ \E k \in DOMAIN saves : ~saves[k].written

(* C12: the exit code reflects the outcome: after any core error (decode,  *)
(* extension, unsupported format, encode) main prints "Error: <message>"   *)
(* and exits with 1; it exits with 0 only when the conversion succeeded.   *)
(* Stated for the runs that executed no undefined behaviour, so that a     *)
(* violation is the exit code and nothing else.                            *)
C12_ExitCodeReflectsOutcome ==
    (ub = "none" /\ exit # "running") =>
        /\ exit = "exit0" => ConversionSucceeded
        /\ CoreErrorOccurred =>
              /\ exit = "exit1"
              /\ Len(stderr) = 1
              /\ stderr[1][1] = "Error: "

----------------------------------------------------------------------------
(* Claims about the workers of ProcessImage, checked under SpecEngine. *)

(* C13: no data race between workers: in every interleaving each worker    *)
(* has read only input offsets of its own chunk [start, end) and written   *)
(* only output indices of [start/channels, end/channels); no location is   *)
(* written by two workers, and none is read by one and written by another. *)
C13_WorkersAccessDisjoint ==
    \A t \in DOMAIN threads :
        /\ \A loc \in threads[t].reads :
              /\ loc[1] = "img"
              /\ threads[t].start <= loc[2]
              /\ loc[2] < threads[t].end
        /\ \A loc \in threads[t].writes :
              /\ loc[1] = "outputImage"
              /\ threads[t].start <= loc[2] * channels
              /\ loc[2] * channels < threads[t].end
        /\ \A u \in DOMAIN threads \ {t} :
              /\ threads[t].writes \cap threads[u].writes = {}
              /\ threads[t].reads \cap threads[u].writes = {}

(* C13 witness: two workers are both in the middle of their chunks. *)
C13_Witness ==
    /\ nThreads = 2
    /\ threads[0].st = "running"
    /\ threads[1].st = "running"
    /\ threads[0].writes # {}
    /\ threads[1].writes # {}
    /\ threads[0].i < threads[0].end
    /\ threads[1].i < threads[1].end

(* C14: fork-join barrier: ProcessImage launches exactly N workers, one    *)
(* per chunk, and returns only after every one of them has finished and    *)
(* been joined; until then the caller's buffer is the one it passed in, so *)
(* the caller sees its input or the whole output, never a part.            *)
C14_ForkJoinBarrier ==
    /\ AllLaunched =>
          /\ DOMAIN threads = 0..(nThreads - 1)
          /\ \A t \in DOMAIN threads : threads[t].st # "default"
    /\ epc = "returned" =>
          /\ joinIdx = nThreads
          /\ \A t \in DOMAIN threads :
                threads[t].st = "joined" /\ threads[t].i >= threads[t].end
          /\ Len(img) = width * height
    /\ epc \in {"entry", "launch", "join"} => img = imgData

(* C14 witness: three workers were launched and joined, and the output has *)
(* replaced the caller's buffer.                                           *)
C14_Witness ==
    /\ epc = "returned"
    /\ nThreads = 3
    /\ \A t \in 0..2 : threads[t].st = "joined"
    /\ imgData = << 255, 255, 0, 0 >>
    /\ img = << 255, 0 >>

(* C15: when width*height < N (width*height = 0 included) chunkSize is 0,  *)
(* every chunk but the last is empty, the last covers all pixels, and the  *)
(* transform completes without error with the output of the N = 1 run.     *)
C15_EmptyChunksTolerated ==
    (nThreads >= 1 /\ width * height < nThreads) =>
        /\ chunkSize = 0
        /\ epc # "crashed"
        /\ ub = "none"
        /\ \A t \in DOMAIN threads :
              threads[t].st # "default" =>
                  IF t < nThreads - 1
                    THEN threads[t].start = threads[t].end
                    ELSE /\ threads[t].start = 0
                         /\ threads[t].end = width * height * channels
        /\ epc = "returned" =>
              img = SingleWorkerOutput(imgData, width, height, channels)

(* C15 witness: three workers on two pixels: two empty chunks, and the     *)
(* last worker produced the whole output.                                  *)
C15_Witness ==
    /\ epc = "returned"
    /\ nThreads = 3
    /\ width * height = 2
    /\ threads[0].writes = {}
    /\ threads[1].writes = {}
    /\ imgData = << 0, 255, 255, 255 >>
    /\ img = << 127, 255 >>

(* C16: while any worker may run, from the start of ProcessImage until all *)
(* workers are joined, the input buffer keeps its decoded contents and its *)
(* length width*height*channels; no worker writes an input sample.         *)
C16_InputUnchangedWhileWorkersRun ==
    /\ epc \in {"entry", "launch", "join"} =>
          /\ img = imgData
          /\ Len(img) = width * height * channels
    /\ \A t \in DOMAIN threads :
          \A loc \in threads[t].writes : loc[1] # "img"

(* C16 witness: a worker has stored a non-zero mean and is still running,  *)
(* and the input is as decoded.                                            *)
C16_Witness ==
    /\ epc = "join"
    /\ \E t \in DOMAIN threads :
          threads[t].st = "running" /\ threads[t].writes # {}
    /\ \E k \in 1..Len(outputImage) : outputImage[k] # 0
    /\ img = imgData
    /\ Len(img) = 6

(* C18: with channels >= 1 and N >= 1 every buffer access of a worker is   *)
(* in bounds: each index read is in 0..width*height*channels - 1, each     *)
(* index written is in 0..width*height - 1, also for the pixel a worker is *)
(* about to convert, and the mean it computes is in 0..255, so the cast to *)
(* unsigned char keeps it.                                                 *)
C18_AccessesInBounds ==
    (channels >= 1 /\ hwConcurrency >= 1) =>
        /\ ub # "out_of_bounds"
        /\ epc # "crashed"
        /\ \A t \in DOMAIN threads :
              /\ \A loc \in threads[t].reads :
                    0 <= loc[2] /\ loc[2] < width * height * channels
              /\ \A loc \in threads[t].writes :
                    0 <= loc[2] /\ loc[2] < width * height
              /\ (threads[t].st = "running" /\ threads[t].i < threads[t].end) =>
                    /\ 0 <= threads[t].i
                    /\ threads[t].i + channels - 1 < Len(img)
                    /\ Len(img) = width * height * channels
                    /\ threads[t].i \div channels < Len(outputImage)
                    /\ Len(outputImage) = width * height
                    /\ GrayScale(img, threads[t].i, channels) \in 0..255
                    /\ ToUChar(GrayScale(img, threads[t].i, channels))
                          = GrayScale(img, threads[t].i, channels)

(* C18 witness: a worker has converted the last pixel of a 3x2 image. *)
C18_Witness ==
    /\ width * height = 6
    /\ channels = 1
    /\ \E t \in DOMAIN threads :
          << "img", 5 >> \in threads[t].reads
            /\ << "outputImage", 5 >> \in threads[t].writes

(* Worker t ran its loop to the end and was joined. *)
WorkerJoined(t) ==
    /\ t \in DOMAIN threads
    /\ threads[t].st = "joined"
    /\ threads[t].i >= threads[t].end

(* C17: for channels >= 1, width*height >= 0 and N >= 1, under fair        *)
(* scheduling every worker loop terminates, every join completes and       *)
(* ProcessImage eventually returns.                                        *)
C17_ProcessImageTerminates ==
    (channels >= 1 /\ hwConcurrency >= 1) =>
        <>(/\ epc = "returned"
           /\ joinIdx = nThreads
           /\ \A t \in 0..(nThreads - 1) : WorkerJoined(t))

(* C17 witness: two workers ran three pixels each to the end of their      *)
(* chunks and ProcessImage returned.                                       *)
C17_Witness ==
    /\ epc = "returned"
    /\ nThreads = 2
    /\ width * height = 6
    /\ \A t \in 0..1 :
          threads[t].i = threads[t].end /\ threads[t].end - threads[t].start = 3

(* C19: the chunk-offset arithmetic does not wrap: with the mixed          *)
(* unsigned/int products taken modulo 2^IntBits and converted back to int, *)
(* for every width, height, channels and N with                            *)
(* width*height*channels <= IntMax, the start and end each thread receives *)
(* equal their mathematical values.                                        *)
C19_OffsetsDoNotWrap ==
    (width * height * channels <= IntMax /\ nThreads >= 1) =>
        /\ epc \in {"launch", "join"} => chunkSize = (width * height) \div nThreads
        /\ \A t \in DOMAIN threads :
              threads[t].st # "default" =>
                  /\ threads[t].start =
                        t * ((width * height) \div nThreads) * channels
                  /\ threads[t].end =
                        IF t = nThreads - 1
                          THEN width * height * channels
                          ELSE (t + 1) * ((width * height) \div nThreads) * channels

(* C19 witness: a buffer of exactly IntMax bytes split over two threads,   *)
(* both launched with offsets above IntMax / 2.                            *)
C19_Witness ==
    /\ width * height * channels = IntMax
    /\ nThreads = 2
    /\ epc = "join"
    /\ threads[1].st = "running"
    /\ threads[1].start > IntMax \div 2 - MaxChannels
    /\ threads[1].end = IntMax

----------------------------------------------------------------------------
(* The decoder's buffer, checked under Spec. *)

(* ConvertImage has been left by an exception thrown after the decode. *)
ThrownAfterDecode ==
    /\ pc = "Failed"
    /\ errors # << >>
    /\ errors[1] # DecodeErrorMessage

(* C20: the decoder's native buffer is released exactly once on every path *)
(* out of ConvertImage after a successful decode, whether the job ends     *)
(* Done or Failed; it is never released when decoding failed; and once     *)
(* released it is not read: ConvertImage has been left.                    *)
C20_NativeBufferReleasedOnce ==
    /\ nativeFrees <= 1
    /\ imgDataState = "null" => nativeFrees = 0
    /\ (pc = "Failed" /\ errors = << DecodeErrorMessage >>) =>
          imgDataState = "null" /\ nativeFrees = 0
    /\ (pc = "Done" \/ ThrownAfterDecode) =>
          imgDataState = "freed" /\ nativeFrees = 1
    /\ imgDataState = "freed" => pc \in {"Done", "Failed"}
    /\ imgDataState = "live" => nativeFrees = 0

(* C20 witness: the lookup threw after a successful decode and transform;  *)
(* the buffer was released once and main reported the error.               *)
C20_Witness ==
    /\ ThrownAfterDecode
    /\ errors = << UnsupportedFormatMessage >>
    /\ epc = "returned"
    /\ imgDataState = "freed"
    /\ nativeFrees = 1
    /\ exit = "exit1"

====
